---- MODULE Spec2Model ----
(***************************************************************************)
(* The command layer of readnlearn's Tauri back end:                       *)
(*   src-tauri/src/lib.rs   the in-memory credential store and run()       *)
(*   src-tauri/src/main.rs  the three provider proxies and main()          *)
(* Rust Strings are TLA+ strings; format! is \o, str::len is Len and a     *)
(* character is a substring of length one.                                 *)
(***************************************************************************)
EXTENDS Naturals, Sequences, FiniteSets, TLC

VARIABLES
    credentials,  \* lib.rs CREDENTIALS: the HashMap<String, String> behind the Mutex
    call,         \* the credential command that returned last, with its result
    prev,         \* the credential command that returned before `call`
    ppc,          \* where the proxy call is: "idle", "called", "sending", "reading", "done"
    req,          \* the proxy call's provider and arguments
    client,       \* the proxy call's reqwest client: "none", "built", "failed"
    wire,         \* the HTTP request the proxy call has issued, or NoRequest
    resp,         \* the HTTP response the proxy call has received, or NoResponse
    pret,         \* the proxy call's result
    pc,           \* per thread, where its credential command is:
                  \*   "idle", "lock", "map", "mid", "ret"
    frame,        \* per thread, the command's name, arguments and result
    guard,        \* per thread, whether it holds the MutexGuard of CREDENTIALS
    locked,       \* whether the Mutex of CREDENTIALS is locked
    writers,      \* the threads that are in the middle of changing the map
    stored,       \* the values that store_credential calls have begun to insert
    entry,        \* the entry point the process started from: "none", "main", "run"
    registered,   \* the commands given to invoke_handler
    invoked       \* the front end's last invoke and what became of it

storeVars == <<credentials, call, prev>>
proxyVars == <<ppc, req, client, wire, resp, pret>>
threadVars == <<pc, frame, guard, locked, writers, stored>>
hostVars == <<entry, registered, invoked>>
vars == <<storeVars, proxyVars, threadVars, hostVars>>

(***************************************************************************)
(* Values of the Rust types                                                *)
(***************************************************************************)
Unit == <<>>
None == <<"None">>
Some(v) == <<"Some", v>>
Ok(v) == <<"Ok", v>>
Err(e) == <<"Err", e>>

(***************************************************************************)
(* Inputs the front end passes to the credential commands.  The two        *)
(* services and the two keys are chosen so that one service and one key    *)
(* contain the ':' that full_key uses as its separator.                    *)
(***************************************************************************)
Services == {"openai", "openai:eu"}
Keys == {"default", "eu:default"}
Values == {"", "sk-test", "sk-live"}

(***************************************************************************)
(* lib.rs: the credential store                                            *)
(***************************************************************************)
\* A key built from the key name alone
full_key_without_service(service, key) == ":" \o key

\* format!("{}:{}", service, key)
full_key(service, key) == service \o ":" \o key

\* A store that keeps an entry it finds (HashMap::entry(k).or_insert(v))
insert_keeps_old(m, k, v) == [x \in DOMAIN m \cup {k} |-> IF x \in DOMAIN m THEN m[x] ELSE v]

\* HashMap::insert: the entry for k becomes v, every other entry stays
insert(m, k, v) == [x \in DOMAIN m \cup {k} |-> IF x = k THEN v ELSE m[x]]

\* A delete that leaves the map alone
remove_nothing(m, k) == m

\* HashMap::remove: the entry for k goes, every other entry stays
remove(m, k) == [x \in DOMAIN m \ {k} |-> m[x]]

\* HashMap::get(..).cloned()
get(m, k) == IF k \in DOMAIN m THEN Some(m[k]) ELSE None

\* `replaced` is what HashMap::insert or HashMap::remove handed back (the entry's
\* old value), which the handlers drop.
NoCall == [op |-> "none", service |-> "", key |-> "", value |-> "",
           replaced |-> None, ret |-> Ok(Unit)]

\* Each command below is one whole handler run with no other command in
\* between: lock, format the key, touch the map, drop the guard, return.
store_credential(service, key, value) ==
    /\ credentials' = insert(credentials, full_key(service, key), value)
    /\ call' = [op |-> "store_credential", service |-> service, key |-> key,
                value |-> value,
                replaced |-> get(credentials, full_key(service, key)),
                ret |-> Ok(Unit)]
    /\ prev' = call

get_credential(service, key) ==
    /\ call' = [op |-> "get_credential", service |-> service, key |-> key,
                value |-> "", replaced |-> None,
                ret |-> Ok(get(credentials, full_key(service, key)))]
    /\ prev' = call
    /\ UNCHANGED credentials

delete_credential(service, key) ==
    /\ credentials' = remove(credentials, full_key(service, key))
    /\ call' = [op |-> "delete_credential", service |-> service, key |-> key,
                value |-> "",
                replaced |-> get(credentials, full_key(service, key)),
                ret |-> Ok(Unit)]
    /\ prev' = call

StoreIdle ==
    /\ credentials = <<>>
    /\ call = NoCall
    /\ prev = NoCall

(***************************************************************************)
(* lib.rs: the credential commands as the host runs them, each on its own  *)
(* thread, one step at a time.  HashMap::insert and HashMap::remove change *)
(* the table in place, so each is two steps with the table in between      *)
(* neither as it was nor as it will be; a thread that touches the table    *)
(* then has a data race and reads Torn.  No handler can panic while it     *)
(* holds the guard, so the Mutex is never poisoned and lock() returns Ok.  *)
(***************************************************************************)
NumThreads == 2
Threads == 1..NumThreads
ThreadKeys == {"default"}
Torn == "<torn>"

IdleFrame == [op |-> "none", service |-> "", key |-> "", value |-> "", ret |-> Ok(Unit)]

ThreadsIdle ==
    /\ pc = [t \in Threads |-> "idle"]
    /\ frame = [t \in Threads |-> IdleFrame]
    /\ guard = [t \in Threads |-> FALSE]
    /\ locked = FALSE
    /\ writers = {}
    /\ stored = {}

\* the host calls a credential command on thread t
begin(t, op, service, key, value) ==
    /\ pc[t] = "idle"
    /\ pc' = [pc EXCEPT ![t] = "lock"]
    /\ frame' = [frame EXCEPT ![t] = [op |-> op, service |-> service, key |-> key,
                                      value |-> value, ret |-> Ok(Unit)]]
    /\ UNCHANGED <<credentials, guard, locked, writers, stored>>

\* A lock that never waits
lock_free_always(held) == TRUE

\* Mutex::lock goes through when no guard is out, and waits otherwise
lock_free(held) == ~held

\* CREDENTIALS.lock().map_err(|e| e.to_string())?
lock(t) ==
    /\ pc[t] = "lock"
    /\ lock_free(locked)
    /\ locked' = TRUE
    /\ guard' = [guard EXCEPT ![t] = TRUE]
    /\ pc' = [pc EXCEPT ![t] = "map"]
    /\ UNCHANGED <<credentials, frame, writers, stored>>

\* store_credential: format!, then credentials.insert(full_key, value) begins
insert_begins(t) ==
    /\ pc[t] = "map" /\ frame[t].op = "store_credential"
    /\ writers' = writers \cup {t}
    /\ stored' = stored \cup {frame[t].value}
    /\ pc' = [pc EXCEPT ![t] = "mid"]
    /\ UNCHANGED <<credentials, frame, guard, locked>>

\* credentials.insert(full_key, value) ends; Ok(())
insert_ends(t) ==
    /\ pc[t] = "mid" /\ frame[t].op = "store_credential"
    /\ credentials' = insert(credentials, full_key(frame[t].service, frame[t].key),
                             frame[t].value)
    /\ writers' = writers \ {t}
    /\ frame' = [frame EXCEPT ![t].ret = Ok(Unit)]
    /\ pc' = [pc EXCEPT ![t] = "ret"]
    /\ UNCHANGED <<guard, locked, stored>>

\* get_credential: format!, then Ok(credentials.get(&full_key).cloned())
read(t) ==
    /\ pc[t] = "map" /\ frame[t].op = "get_credential"
    /\ frame' = [frame EXCEPT ![t].ret =
                   IF writers \ {t} # {}
                   THEN Ok(Some(Torn))
                   ELSE Ok(get(credentials, full_key(frame[t].service, frame[t].key)))]
    /\ pc' = [pc EXCEPT ![t] = "ret"]
    /\ UNCHANGED <<credentials, guard, locked, writers, stored>>

\* delete_credential: format!, then credentials.remove(&full_key) begins
remove_begins(t) ==
    /\ pc[t] = "map" /\ frame[t].op = "delete_credential"
    /\ writers' = writers \cup {t}
    /\ pc' = [pc EXCEPT ![t] = "mid"]
    /\ UNCHANGED <<credentials, frame, guard, locked, stored>>

\* credentials.remove(&full_key) ends; Ok(())
remove_ends(t) ==
    /\ pc[t] = "mid" /\ frame[t].op = "delete_credential"
    /\ credentials' = remove(credentials, full_key(frame[t].service, frame[t].key))
    /\ writers' = writers \ {t}
    /\ frame' = [frame EXCEPT ![t].ret = Ok(Unit)]
    /\ pc' = [pc EXCEPT ![t] = "ret"]
    /\ UNCHANGED <<guard, locked, stored>>

\* the handler returns frame[t].ret: the guard goes out of scope and the
\* Mutex is unlocked
return(t) ==
    /\ pc[t] = "ret"
    /\ guard' = [guard EXCEPT ![t] = FALSE]
    /\ locked' = FALSE
    /\ pc' = [pc EXCEPT ![t] = "idle"]
    /\ frame' = [frame EXCEPT ![t] = IdleFrame]
    /\ UNCHANGED <<credentials, writers, stored>>

(***************************************************************************)
(* main.rs: the provider proxies                                           *)
(***************************************************************************)
Providers == {"openai", "deepl", "google"}

\* base_url.unwrap_or_else(|| "...".to_string())
default_base(provider) ==
    CASE provider = "openai" -> "https://api.openai.com"
      [] provider = "deepl"  -> "https://api-free.deepl.com"
      [] provider = "google" -> "https://translation.googleapis.com"

base_of(provider, base_url) ==
    IF base_url = None THEN default_base(provider) ELSE base_url[2]

\* api_key.is_empty() never holding
is_empty_never(s) == FALSE

\* api_key.is_empty()
is_empty(s) == Len(s) = 0

\* return Err("Missing <provider> API key".into())
missing_key(provider) ==
    CASE provider = "openai" -> "Missing OpenAI API key"
      [] provider = "deepl"  -> "Missing DeepL API key"
      [] provider = "google" -> "Missing Google API key"

\* path.contains('?')
contains(s, c) == \E i \in 1..Len(s) : SubSeq(s, i, i) = c

\* A separator that is always '?'
sep_always_question(path) == "?"

\* let sep = if path.contains('?') { "&" } else { "?" };
google_sep(path) == IF contains(path, "?") THEN "&" ELSE "?"

\* let url = format!(...)
url_of(provider, base_url, path, api_key) ==
    IF provider = "google"
    THEN base_of(provider, base_url) \o path \o google_sep(path) \o "key=" \o api_key
    ELSE base_of(provider, base_url) \o path

\* Two characters outside ASCII that str::to_uppercase maps onto ASCII
\* letters.  The module is ASCII, so each is written as a stand-in.
LongS == "$"        \* U+017F LATIN SMALL LETTER LONG S, uppercase "S"
LigatureSt == "%"   \* U+FB06 LATIN SMALL LIGATURE ST, uppercase "ST"

LowerLetters == "abcdefghijklmnopqrstuvwxyz"
UpperLetters == "ABCDEFGHIJKLMNOPQRSTUVWXYZ"
CharAt(s, i) == SubSeq(s, i, i)

\* the ASCII part of char::to_uppercase, as a table from a to A, ..., z to Z
AsciiUpper ==
    [c \in {CharAt(LowerLetters, i) : i \in 1..26} |->
       CharAt(UpperLetters, CHOOSE i \in 1..26 : CharAt(LowerLetters, i) = c)]

\* char::to_uppercase: one character to its (one or more) uppercase characters
char_to_uppercase(c) ==
    IF c \in DOMAIN AsciiUpper THEN AsciiUpper[c]
    ELSE IF c = LongS THEN "S"
    ELSE IF c = LigatureSt THEN "ST"
    ELSE c

\* A match on the method as given
to_uppercase_identity(s) == s

\* str::to_uppercase
RECURSIVE to_uppercase(_)
to_uppercase(s) ==
    IF s = "" THEN "" ELSE char_to_uppercase(Head(s)) \o to_uppercase(Tail(s))

\* the arms of `match method.to_uppercase().as_str()`
MatchArms == {"POST", "GET", "PUT", "PATCH", "DELETE"}

\* .bearer_auth / .header(...) before the body, then the body's Content-Type
headers_of(provider, api_key, body) ==
    (CASE provider = "openai" ->
            {<<"Authorization", "Bearer " \o api_key>>,
             <<"Content-Type", "application/json">>}
       [] provider = "deepl"  ->
            {<<"Authorization", "DeepL-Auth-Key " \o api_key>>}
       [] provider = "google" -> {})
    \cup (IF body # None /\ provider # "openai"
          THEN {<<"Content-Type", "application/json">>} ELSE {})

\* A result that turns a 4xx or 5xx status into an error
text_result_checking_status(response) ==
    IF response.status >= 400 THEN Err("HTTP status error") ELSE Ok(response.text)

\* Ok(text)
text_result(response) == Ok(response.text)

NoArgs == [provider |-> "none", api_key |-> "", base_url |-> None, method |-> "",
           path |-> "", body |-> None]
NoRequest == [method |-> "", url |-> "", headers |-> {}, body |-> None]
NoResponse == [status |-> 0, text |-> "", read |-> "none"]
NoResult == <<"Pending", "">>

ProxyIdle ==
    /\ ppc = "idle"
    /\ req = NoArgs
    /\ client = "none"
    /\ wire = NoRequest
    /\ resp = NoResponse
    /\ pret = NoResult

\* openai_proxy, deepl_proxy, google_proxy from entry to the first await:
\* the key check, the URL, the client, the method match, the headers and body,
\* and req.send(), which puts the request on the wire.  `built` is whether
\* reqwest::Client::builder().build() succeeded.
proxy(args, built) ==
    /\ req' = args
    /\ IF is_empty(args.api_key)
       THEN /\ ppc' = "done"
            /\ pret' = Err(missing_key(args.provider))
            /\ client' = "none"
            /\ wire' = NoRequest
       ELSE IF ~built
       THEN /\ ppc' = "done"
            /\ pret' = Err("Failed to create HTTP client: builder error")
            /\ client' = "failed"
            /\ wire' = NoRequest
       ELSE IF to_uppercase(args.method) \notin MatchArms
       THEN /\ ppc' = "done"
            /\ pret' = Err("Unsupported method")
            /\ client' = "built"
            /\ wire' = NoRequest
       ELSE /\ ppc' = "sending"
            /\ pret' = NoResult
            /\ client' = "built"
            /\ wire' = [method |-> to_uppercase(args.method),
                        url |-> url_of(args.provider, args.base_url, args.path, args.api_key),
                        headers |-> headers_of(args.provider, args.api_key, args.body),
                        body |-> args.body]
    /\ resp' = NoResponse

\* req.send().await fails: .map_err(|e| e.to_string())?
send_fails(e) ==
    /\ ppc = "sending"
    /\ ppc' = "done"
    /\ pret' = Err(e)
    /\ UNCHANGED <<req, client, wire, resp>>

\* req.send().await hands back a response, whatever its status; `text` is
\* its body as resp.text() will decode it
send_succeeds(status, text) ==
    /\ ppc = "sending"
    /\ ppc' = "reading"
    /\ resp' = [status |-> status, text |-> text, read |-> "pending"]
    /\ UNCHANGED <<req, client, wire, pret>>

\* resp.text().await fails: .map_err(|e| e.to_string())?
text_fails(e) ==
    /\ ppc = "reading"
    /\ ppc' = "done"
    /\ resp' = [resp EXCEPT !.read = "failed"]
    /\ pret' = Err(e)
    /\ UNCHANGED <<req, client, wire>>

\* resp.text().await yields the body; Ok(text)
text_succeeds ==
    /\ ppc = "reading"
    /\ ppc' = "done"
    /\ resp' = [resp EXCEPT !.read = "ok"]
    /\ pret' = text_result(resp)
    /\ UNCHANGED <<req, client, wire>>

(***************************************************************************)
(* The process: an entry point hands its commands to the GUI host, which   *)
(* then dispatches the front end's invokes to them                         *)
(***************************************************************************)
\* format!("Hello, {}! You've been greeted from Rust!", name)
greet(name) == "Hello, " \o name \o "! You've been greeted from Rust!"

NoInvoke == [cmd |-> "", outcome |-> "none", reply |-> ""]

HostIdle ==
    /\ entry = "none"
    /\ registered = {}
    /\ invoked = NoInvoke

\* main.rs fn main: tauri::generate_handler![openai_proxy, deepl_proxy, google_proxy]
main ==
    /\ entry = "none"
    /\ entry' = "main"
    /\ registered' = {"openai_proxy", "deepl_proxy", "google_proxy"}
    /\ UNCHANGED invoked

\* lib.rs pub fn run (the mobile entry point): tauri::generate_handler![greet,
\* store_credential, get_credential, delete_credential]
run ==
    /\ entry = "none"
    /\ entry' = "run"
    /\ registered' = {"greet", "store_credential", "get_credential", "delete_credential"}
    /\ UNCHANGED invoked

\* the handler generated by generate_handler! knows the command and runs it
handled(cmd, reply) ==
    /\ cmd \in registered
    /\ invoked' = [cmd |-> cmd, outcome |-> "handled", reply |-> reply]
    /\ UNCHANGED <<entry, registered>>

\* the handler generated by generate_handler! does not know the command: the
\* host rejects the invoke
not_found(cmd) ==
    /\ entry # "none"
    /\ cmd \notin registered
    /\ invoked' = [cmd |-> cmd, outcome |-> "not found", reply |-> ""]
    /\ UNCHANGED <<entry, registered>>

(***************************************************************************)
(* Inputs the front end passes to the proxies, and what the network does   *)
(***************************************************************************)
MaxPathLen == 2

RECURSIVE StringsOver(_, _)
StringsOver(chars, n) ==
    IF n = 0 THEN {""}
    ELSE StringsOver(chars, n - 1)
           \cup {s \o c : s \in {t \in StringsOver(chars, n - 1) : Len(t) = n - 1},
                          c \in chars}

ApiKeys == {"", "k-1"}
BaseUrls == {None, Some("http://localhost:8080")}
Paths == StringsOver({"/", "?"}, MaxPathLen) \cup {"/v2", "/v2?target=fr"}
Bodies == {None, Some("{}")}

\* char::to_lowercase on the ASCII letters, as a table from A to a, ..., Z to z
AsciiLower ==
    [c \in {CharAt(UpperLetters, i) : i \in 1..26} |->
       CharAt(LowerLetters, CHOOSE i \in 1..26 : CharAt(UpperLetters, i) = c)]

char_to_lowercase(c) == IF c \in DOMAIN AsciiLower THEN AsciiLower[c] ELSE c

\* Every upper/lower/mixed-case spelling of a method name
RECURSIVE CaseSpellings(_)
CaseSpellings(m) ==
    IF m = "" THEN {""}
    ELSE {c \o r : c \in {Head(m), char_to_lowercase(Head(m))},
                   r \in CaseSpellings(Tail(m))}

Methods ==
    UNION {CaseSpellings(m) : m \in MatchArms}
    \cup {"", "G", "GE", "ge", "HEAD", "head", "OPTIONS", "TRACE", "GETS", " GET", "GET ", "P0ST",
          "PATCHES", "po" \o LongS \o "t", "po" \o LigatureSt, LongS, "pu" \o LigatureSt}

Statuses == {200, 404, 500}
Texts == {"", "{\"ok\":1}"}
SendErrors == {"error sending request", "operation timed out"}
TextErrors == {"error decoding response body"}

(***************************************************************************)
(* Specifications                                                          *)
(***************************************************************************)
Idle == StoreIdle /\ ProxyIdle /\ ThreadsIdle /\ HostIdle

\* The credential commands, one whole call after another
StoreInit == Idle

StoreNext ==
    \/ \E s \in Services, k \in Keys, v \in Values :
         store_credential(s, k, v) /\ UNCHANGED <<proxyVars, threadVars, hostVars>>
    \/ \E s \in Services, k \in Keys :
         get_credential(s, k) /\ UNCHANGED <<proxyVars, threadVars, hostVars>>
    \/ \E s \in Services, k \in Keys :
         delete_credential(s, k) /\ UNCHANGED <<proxyVars, threadVars, hostVars>>

SpecStore == StoreInit /\ [][StoreNext]_vars

\* One proxy invocation.  The calls share nothing, so one behaviour is one
\* call: the front end's arguments are drawn once and the handler runs on them.
ProxyInit ==
    /\ StoreIdle /\ ThreadsIdle /\ HostIdle
    /\ ppc = "called"
    /\ req \in [provider : Providers, api_key : ApiKeys, base_url : BaseUrls,
                method : Methods, path : Paths, body : Bodies]
    /\ client = "none"
    /\ wire = NoRequest
    /\ resp = NoResponse
    /\ pret = NoResult

ProxyNext ==
    \/ \E built \in BOOLEAN :
         ppc = "called" /\ proxy(req, built) /\ UNCHANGED <<storeVars, threadVars, hostVars>>
    \/ \E e \in SendErrors :
         send_fails(e) /\ UNCHANGED <<storeVars, threadVars, hostVars>>
    \/ \E st \in Statuses, t \in Texts :
         send_succeeds(st, t) /\ UNCHANGED <<storeVars, threadVars, hostVars>>
    \/ \E e \in TextErrors :
         text_fails(e) /\ UNCHANGED <<storeVars, threadVars, hostVars>>
    \/ text_succeeds /\ UNCHANGED <<storeVars, threadVars, hostVars>>

SpecProxy == ProxyInit /\ [][ProxyNext]_vars

\* The credential commands on concurrent threads
ThreadInit == Idle

ThreadsOnly == UNCHANGED <<call, prev, proxyVars, hostVars>>

ThreadNext ==
    \/ \E t \in Threads, s \in Services, k \in ThreadKeys, v \in Values :
         begin(t, "store_credential", s, k, v) /\ ThreadsOnly
    \/ \E t \in Threads, s \in Services, k \in ThreadKeys :
         begin(t, "get_credential", s, k, "") /\ ThreadsOnly
    \/ \E t \in Threads, s \in Services, k \in ThreadKeys :
         begin(t, "delete_credential", s, k, "") /\ ThreadsOnly
    \/ \E t \in Threads : lock(t) /\ ThreadsOnly
    \/ \E t \in Threads : insert_begins(t) /\ ThreadsOnly
    \/ \E t \in Threads : insert_ends(t) /\ ThreadsOnly
    \/ \E t \in Threads : read(t) /\ ThreadsOnly
    \/ \E t \in Threads : remove_begins(t) /\ ThreadsOnly
    \/ \E t \in Threads : remove_ends(t) /\ ThreadsOnly
    \/ \E t \in Threads : return(t) /\ ThreadsOnly

SpecThreads == ThreadInit /\ [][ThreadNext]_vars

\* The process from its start: an entry point, then the front end's invokes
HostInit == Idle

HostArgs ==
    [provider : Providers, api_key : {"", "k-1"}, base_url : {None},
     method : {"get", "TRACE"}, path : {"/v2"}, body : {None}]

InvokeNames ==
    {"greet", "store_credential", "get_credential", "delete_credential",
     "openai_proxy", "deepl_proxy", "google_proxy"}

HostNext ==
    \/ main /\ UNCHANGED <<storeVars, proxyVars, threadVars>>
    \/ run /\ UNCHANGED <<storeVars, proxyVars, threadVars>>
    \/ \E cmd \in InvokeNames :
         not_found(cmd) /\ UNCHANGED <<storeVars, proxyVars, threadVars>>
    \/ \E name \in {"", "Ann"} :
         handled("greet", greet(name)) /\ UNCHANGED <<storeVars, proxyVars, threadVars>>
    \/ \E s \in Services, k \in Keys, v \in Values :
         /\ handled("store_credential", "")
         /\ store_credential(s, k, v)
         /\ UNCHANGED <<proxyVars, threadVars>>
    \/ \E s \in Services, k \in Keys :
         /\ handled("get_credential", "")
         /\ get_credential(s, k)
         /\ UNCHANGED <<proxyVars, threadVars>>
    \/ \E s \in Services, k \in Keys :
         /\ handled("delete_credential", "")
         /\ delete_credential(s, k)
         /\ UNCHANGED <<proxyVars, threadVars>>
    \/ \E args \in HostArgs, built \in BOOLEAN :
         /\ ppc \in {"idle", "done"}
         /\ handled(args.provider \o "_proxy", "")
         /\ proxy(args, built)
         /\ UNCHANGED <<storeVars, threadVars>>
    \/ \E e \in SendErrors :
         send_fails(e) /\ UNCHANGED <<storeVars, threadVars, hostVars>>
    \/ \E st \in Statuses, t \in Texts :
         send_succeeds(st, t) /\ UNCHANGED <<storeVars, threadVars, hostVars>>
    \/ \E e \in TextErrors :
         text_fails(e) /\ UNCHANGED <<storeVars, threadVars, hostVars>>
    \/ text_succeeds /\ UNCHANGED <<storeVars, threadVars, hostVars>>

SpecHost == HostInit /\ [][HostNext]_vars

(***************************************************************************)
(* The credential store, one command at a time                             *)
(***************************************************************************)
SamePair(c, d) == c.service = d.service /\ c.key = d.key

\* C1: store_credential returns Ok, and a get_credential of the same
\* (service, key) issued right after it returns Ok(Some(value)) with exactly
\* the value just stored, whatever the store held before.
C1_StoreThenGet ==
    /\ call.op = "store_credential" => call.ret = Ok(Unit)
    /\ (prev.op = "store_credential" /\ call.op = "get_credential" /\ SamePair(prev, call))
          => call.ret = Ok(Some(prev.value))

\* A store overwrote "sk-test" with "sk-live" and the get that followed
\* returned "sk-live".
C1_Witness ==
    /\ prev.op = "store_credential" /\ prev.replaced = Some("sk-test")
    /\ prev.value = "sk-live"
    /\ call.op = "get_credential" /\ SamePair(prev, call)
    /\ call.ret = Ok(Some("sk-live"))

\* C2: delete_credential returns Ok whether or not the entry exists, a
\* get_credential of the same (service, key) issued right after it returns
\* Ok(None), and a delete of a missing entry leaves the map as it was.
C2_DeleteThenGet ==
    [][ /\ call'.op = "delete_credential" => call'.ret = Ok(Unit)
        /\ (call.op = "delete_credential" /\ call'.op = "get_credential"
              /\ SamePair(call, call'))
             => call'.ret = Ok(None)
        /\ (call'.op = "delete_credential"
              /\ full_key(call'.service, call'.key) \notin DOMAIN credentials)
             => credentials' = credentials ]_vars

\* A delete removed an existing entry and the get that followed found nothing.
C2_Witness ==
    /\ prev.op = "delete_credential" /\ prev.replaced # None
    /\ call.op = "get_credential" /\ SamePair(prev, call)
    /\ call.ret = Ok(None)

\* What get_credential(s, k) would return from the map m
Lookup(m, s, k) == Ok(get(m, full_key(s, k)))

\* C3: a store or delete on (s1, k1) never changes what get_credential
\* returns for any other pair (s2, k2), also for services and keys that
\* contain ':'.
C3_PairsAreIndependent ==
    [][ call'.op \in {"store_credential", "delete_credential"}
        => \A s2 \in Services, k2 \in Keys :
             <<s2, k2>> # <<call'.service, call'.key>>
               => Lookup(credentials', s2, k2) = Lookup(credentials, s2, k2) ]_vars

\* C4: a store or delete on (s1, k) never changes what get_credential
\* returns for (s2, k) with the same key and another service s2.
C4_ServicesDoNotCollide ==
    [][ call'.op \in {"store_credential", "delete_credential"}
        => \A s2 \in Services :
             s2 # call'.service
               => Lookup(credentials', s2, call'.key) = Lookup(credentials, s2, call'.key) ]_vars

\* A store on (s1, k) happened while (s2, k) held another value, which is
\* still there.
C4_Witness ==
    /\ call.op = "store_credential"
    /\ \E s2 \in Services :
         /\ s2 # call.service
         /\ Lookup(credentials, s2, call.key) \notin {Ok(None), Ok(Some(call.value))}
         /\ Lookup(credentials, call.service, call.key) = Ok(Some(call.value))

(***************************************************************************)
(* The provider proxies                                                    *)
(***************************************************************************)
Returned == ppc = "done"
Started == ppc \notin {"idle", "called"}

\* Caseless matching of a method name: both sides are case-folded (Unicode
\* folds the long s to "s" and the st ligature to "st") and compared.
FoldChar(c) ==
    IF c = LongS THEN "s"
    ELSE IF c = LigatureSt THEN "st"
    ELSE char_to_lowercase(c)

RECURSIVE CaseFold(_)
CaseFold(s) == IF s = "" THEN "" ELSE FoldChar(Head(s)) \o CaseFold(Tail(s))

MatchesIgnoringCase(m) == CaseFold(m) \in {"get", "post", "put", "patch", "delete"}

\* C5: a proxy called with an empty api_key returns the provider's
\* 'Missing <provider> API key' error and puts no request on the wire,
\* whatever base_url, method, path and body are.
C5_EmptyKeyIsRejected ==
    (Started /\ req.api_key = "")
      => /\ Returned
         /\ wire = NoRequest
         /\ req.provider = "openai" => pret = Err("Missing OpenAI API key")
         /\ req.provider = "deepl" => pret = Err("Missing DeepL API key")
         /\ req.provider = "google" => pret = Err("Missing Google API key")

\* deepl_proxy was called with an empty key, a supported method and a body,
\* and returned its error with nothing sent.
C5_Witness ==
    /\ Returned /\ req.provider = "deepl" /\ req.api_key = ""
    /\ req.method = "POST" /\ req.body # None /\ req.base_url # None
    /\ pret = Err("Missing DeepL API key") /\ wire = NoRequest

\* C6 as stated: a method that matches none of GET, POST, PUT, PATCH, DELETE
\* caselessly gets the 'Unsupported method' error and no request is sent, and
\* every spelling of the five is sent.
C6_MethodDecidesAlone ==
    Started
      => IF MatchesIgnoringCase(req.method)
         THEN wire # NoRequest
         ELSE Returned /\ pret = Err("Unsupported method") /\ wire = NoRequest

\* C6 as amended: no request is sent for a method that matches none of the
\* five caselessly; when the api_key is not empty and the HTTP client was
\* built, such a method gets the 'Unsupported method' error and every
\* spelling of the five is sent.
C6_MethodAfterKeyAndClient ==
    /\ (Started /\ ~MatchesIgnoringCase(req.method)) => Returned /\ wire = NoRequest
    /\ (Started /\ req.api_key # "" /\ client = "built")
         => IF MatchesIgnoringCase(req.method)
            THEN wire # NoRequest /\ wire.method = to_uppercase(req.method)
            ELSE pret = Err("Unsupported method")

\* A mixed-case spelling went out as PATCH.
C6_Witness ==
    /\ ppc = "sending" /\ req.method = "pAtCh" /\ wire.method = "PATCH"

\* C7: when the request was sent and the body read, the proxy returns
\* Ok(body) with the body as received, for every status code; it returns Err
\* only for a rejected input, a client that could not be built, a failed
\* send or a failed read.
C7_StatusIsPassedThrough ==
    /\ (Returned /\ resp.read = "ok") => pret = Ok(resp.text)
    /\ (Returned /\ pret[1] = "Err")
         => \/ req.api_key = ""
            \/ ~MatchesIgnoringCase(req.method)
            \/ client = "failed"
            \/ wire # NoRequest /\ resp = NoResponse
            \/ resp.read = "failed"

\* A 500 response with a body came back as Ok(body).
C7_Witness ==
    /\ Returned /\ resp.status = 500 /\ resp.read = "ok"
    /\ resp.text # "" /\ pret = Ok(resp.text)

\* C8: google_proxy's URL is base_url + path + sep + "key=" + api_key with
\* sep "&" when path has a '?' and "?" otherwise, base_url defaulting to
\* https://translation.googleapis.com.
C8_GoogleUrl ==
    (req.provider = "google" /\ wire # NoRequest)
      => LET base == IF req.base_url = None
                     THEN "https://translation.googleapis.com"
                     ELSE req.base_url[2]
             sep == IF \E i \in 1..Len(req.path) : SubSeq(req.path, i, i) = "?"
                    THEN "&" ELSE "?"
         IN  /\ wire.url = base \o req.path \o sep \o "key=" \o req.api_key
             /\ req.path = "/v2?target=fr"
                  => wire.url = base \o "/v2?target=fr&key=" \o req.api_key
             /\ req.path = "/v2" => wire.url = base \o "/v2?key=" \o req.api_key

\* The path with a query string went out with '&key=' on the default base.
C8_Witness ==
    /\ req.provider = "google" /\ req.path = "/v2?target=fr" /\ req.base_url = None
    /\ wire.url = "https://translation.googleapis.com/v2?target=fr&key=k-1"

(***************************************************************************)
(* The command surface                                                     *)
(***************************************************************************)
\* C9: the entry point registers all six commands, so the front end of the
\* running process can dispatch each of them.
C9_AllSixRegistered ==
    entry # "none"
      => /\ {"store_credential", "get_credential", "delete_credential",
             "openai_proxy", "deepl_proxy", "google_proxy"} \subseteq registered
         /\ invoked.cmd \in {"store_credential", "get_credential", "delete_credential",
                             "openai_proxy", "deepl_proxy", "google_proxy"}
              => invoked.outcome = "handled"

(***************************************************************************)
(* The credential store under concurrent commands                          *)
(***************************************************************************)
\* C10: a command is at the map only while it holds the guard, at most one
\* command holds the guard, the Mutex is locked exactly while a guard is
\* out, a command that has returned or not yet locked holds none, and a
\* get_credential returns None or a value some store_credential wrote,
\* never a half-written entry.
C10_MapOnlyUnderTheLock ==
    /\ \A t \in Threads : pc[t] \in {"map", "mid", "ret"} => guard[t]
    /\ Cardinality({t \in Threads : guard[t]}) <= 1
    /\ locked <=> \E t \in Threads : guard[t]
    /\ \A t \in Threads : pc[t] \in {"idle", "lock"} => ~guard[t]
    /\ writers \subseteq {t \in Threads : guard[t]}
    /\ \A t \in Threads :
         (pc[t] = "ret" /\ frame[t].op = "get_credential")
           => /\ frame[t].ret # Ok(Some(Torn))
              /\ \/ frame[t].ret = Ok(None)
                 \/ \E v \in stored : frame[t].ret = Ok(Some(v))

\* A get_credential is about to return a stored value while another thread
\* waits for the lock with a store to the same entry.
C10_Witness ==
    \E t, u \in Threads :
      /\ t # u
      /\ pc[t] = "ret" /\ frame[t].op = "get_credential"
      /\ frame[t].ret = Ok(Some("sk-test"))
      /\ pc[u] = "lock" /\ frame[u].op = "store_credential"
      /\ frame[u].service = frame[t].service /\ frame[u].key = frame[t].key

====
